---- MODULE Spec2Model ----
(* Google OAuth + JWT session lifecycle of the auth module:                 *)
(*   src/src/auth/auth.controller.js  (HTTP handlers)                       *)
(*   src/src/auth/auth.service.js     (lifecycle service)                   *)
(*   src/src/auth/auth.repository.js  (users table access)                  *)
(* Every await of a handler is one step of the request's process; requests  *)
(* of different processes interleave at these steps.                        *)
EXTENDS Integers, FiniteSets, Sequences, TLC

(* ------------------------------ bounds ---------------------------------- *)
NumProcs == 2        \* requests in flight at the same time
NumCodes == 2        \* authorization codes the provider hands out
MaxClock == 1        \* the clock runs 0..MaxClock (hours)
MaxRequests == 2     \* requests accepted in one behaviour

(* --------------------------- program constants -------------------------- *)
TokenLifetime == 1   \* jwt.sign(..., { expiresIn: '1h' }), in clock hours
ExpiresIn == 3600    \* expiresIn: 3600 of the 200 bodies, in seconds

Procs  == 1..NumProcs
Codes  == 1..NumCodes
NoCode == 0                          \* req.query.code of no callback request
Emails == {"a@x.com", "b@x.com"}

JWT_SECRET == "JWT_SECRET"
OtherSecret == "other"

NoRT == "none"                       \* refresh_token absent / NULL
RT(e) == "rt:" \o e                  \* refresh token the provider issues to e
RTokens == {RT(e) : e \in Emails}
RTOwner(r) == CHOOSE e \in Emails : RT(e) = r
NameOf(e) == "name:" \o e

(* ------------------------------ session tokens -------------------------- *)
NoToken == [kind |-> "absent", id |-> 0, email |-> "", exp |-> 0, key |-> ""]
Garbage == [kind |-> "malformed", id |-> 0, email |-> "", exp |-> 0, key |-> ""]
Jwt(id, email, exp, key) ==
    [kind |-> "jwt", id |-> id, email |-> email, exp |-> exp, key |-> key]
\* a token for the first user signed with another secret
Forged == {Jwt(1, "a@x.com", MaxClock + TokenLifetime, OtherSecret)}

\* mutant: the payload is signed without the id
createJwtAccessToken_noid(user, t) ==
    Jwt(0, user.email, t + TokenLifetime, JWT_SECRET)

\* jwt.sign({id, email}, JWT_SECRET, {expiresIn: '1h'}) at clock t
createJwtAccessToken(user, t) ==
    Jwt(user.id, user.email, t + TokenLifetime, JWT_SECRET)

\* mutant: the expiry is not checked (ignoreExpiration)
jwtVerify_noexp(token, t) ==
    /\ token.kind = "jwt"
    /\ token.key = JWT_SECRET

\* mutant: a token is still accepted at the instant it expires
jwtVerify_late(token, t) ==
    /\ token.kind = "jwt"
    /\ token.key = JWT_SECRET
    /\ t <= token.exp

\* jwt.verify(token, JWT_SECRET) at clock t: TRUE iff it does not throw
jwtVerify(token, t) ==
    /\ token.kind = "jwt"
    /\ token.key = JWT_SECRET
    /\ t < token.exp

\* decoded = jwt.verify(...): the payload of a token that verifies
jwtDecode(token) == [id |-> token.id, email |-> token.email]

(* ------------------------------- state ---------------------------------- *)
VARIABLES
    users,      \* rows of the users table
    now,        \* clock, in hours
    usedCodes,  \* authorization codes the provider has already exchanged
    revoked,    \* refresh tokens the provider has revoked
    issued,     \* session tokens handed to clients so far
    nreq,       \* requests accepted so far
    pc,         \* position of each request handler
    req,        \* the HTTP request each process is serving
    loc,        \* the handler's local variables
    resp,       \* what the HTTP client and the caller of the service got
    granted,    \* refresh tokens the provider has handed out
    undisturbed,\* no other request wrote the row of this request's email
    lastLogout  \* token of the last undisturbed successful logout, until
                \* the row of its email is written again

vars == <<users, now, usedCodes, granted, revoked, issued, nreq, pc, req, loc,
          resp, undisturbed, lastLogout>>

NoReq == [kind |-> "none", code |-> NoCode, cookieRT |-> NoRT,
          bearer |-> NoToken, cookieUserEmail |-> NoToken]
\* status and refresh token of a row as a logout found them when it was
\* called; NoBefore: no such row, or no logout
NoBefore == [status |-> "", refresh_token |-> NoRT]
NoLoc == [access |-> "", rt |-> NoRT, email |-> "",
          user |-> 0, userEmail |-> "", at |-> 0, fresh |-> FALSE,
          ops |-> <<>>, before |-> NoBefore]
\* status 0: no HTTP response has been sent; service: what the service
\* function returned to the controller (Threw: its promise was rejected)
Threw == -1
NoBody == [email |-> "", name |-> "", login_provider |-> "", created_at |-> -1]
NoResp == [status |-> 0, accessToken |-> NoToken, expiresIn |-> 0,
           cookie |-> NoRT, location |-> "",
           service |-> 0, origin |-> "", error |-> "", logged |-> "",
           body |-> NoBody]

(* ------------------------------ users table ----------------------------- *)
DefaultStatus == "DEFAULT"           \* column default, the INSERT omits it

Row(id, email, name, status, rt, created) ==
    [id |-> id, email |-> email, name |-> name, login_provider |-> "google",
     status |-> status, refresh_token |-> rt, created_at |-> created]

RowsByEmail(tbl, e) == {u \in tbl : u.email = e}
HasEmail(tbl, e) == RowsByEmail(tbl, e) # {}
RowOf(tbl, e) == CHOOSE u \in tbl : u.email = e

\* unique (email): an INSERT of an email that is already there is rejected
UniqueViolation(tbl, e) == HasEmail(tbl, e)

\* UPDATE users SET status = $1 WHERE email = $2
updateUserStatus(tbl, e, status) ==
    {IF u.email = e THEN [u EXCEPT !.status = status] ELSE u : u \in tbl}

\* mutant: the UPDATE matches no row
updateRefreshToken_none(tbl, userId, rt) == tbl

\* UPDATE users SET refresh_token = $1 WHERE id = $2
updateRefreshToken(tbl, userId, rt) ==
    {IF u.id = userId THEN [u EXCEPT !.refresh_token = rt] ELSE u : u \in tbl}

\* mutant: the logout deletes the row instead of clearing its token
clearRefreshToken_delete(tbl, userId) == {u \in tbl : u.id # userId}

\* mutant: the WHERE clause matches no row
clearRefreshToken_none(tbl, userId) == tbl

\* UPDATE users SET refresh_token = NULL WHERE id = $1
clearRefreshToken(tbl, userId) ==
    {IF u.id = userId THEN [u EXCEPT !.refresh_token = NoRT] ELSE u : u \in tbl}

\* INSERT INTO users (email, name, login_provider) ... RETURNING *
createUser(tbl, e, t) ==
    Row(Cardinality(tbl) + 1, e, NameOf(e), DefaultStatus, NoRT, t)

(* -------------------------------- Init ---------------------------------- *)
\* the server starts on an empty table, or on the table an earlier login of
\* the first user has left, that user holding the session token of that login
FirstUser == "a@x.com"
SeedRow == Row(1, FirstUser, NameOf(FirstUser), "ONLINE", RT(FirstUser), 0)
SeedToken == createJwtAccessToken(SeedRow, 0)

Init ==
    /\ \/ users = {} /\ granted = {} /\ issued = {}
       \/ users = {SeedRow} /\ granted = {RT(FirstUser)} /\ issued = {SeedToken}
    /\ now = 0
    /\ usedCodes = {}
    /\ revoked = {}
    /\ nreq = 0
    /\ pc = [p \in Procs |-> "idle"]
    /\ req = [p \in Procs |-> NoReq]
    /\ loc = [p \in Procs |-> NoLoc]
    /\ resp = [p \in Procs |-> NoResp]
    /\ undisturbed = [p \in Procs |-> TRUE]
    /\ lastLogout = NoToken

Idle(p) == pc[p] \in {"idle", "done", "rejected"}

\* the free process with the lowest number takes the next request
Acceptor(p) == Idle(p) /\ \A q \in Procs : q < p => ~Idle(q)

\* a request is accepted by process p: the handler starts at position start
Accept(p, r, start) ==
    /\ Acceptor(p)
    /\ nreq < MaxRequests
    /\ nreq' = nreq + 1
    /\ req' = [req EXCEPT ![p] = r]
    /\ pc' = [pc EXCEPT ![p] = start]
    /\ undisturbed' = [undisturbed EXCEPT ![p] = TRUE]

Goto(p, l) == pc' = [pc EXCEPT ![p] = l]

\* the handler returns: its local variables are gone; the record keeps the
\* email the request was about, the time of its token check, whether it
\* came right after a logout with the same token, and the calls it completed
Return(l) == [NoLoc EXCEPT !.email = l.email, !.at = l.at, !.fresh = l.fresh,
                           !.ops = l.ops]

\* the handler of p has completed the provider or repository call op
Did(p, op) == Append(loc[p].ops, op)
Finish(p, l) ==
    /\ pc' = [pc EXCEPT ![p] = l]
    /\ loc' = [loc EXCEPT ![p] = Return(loc[p])]

\* the handler returns right after the call op has completed
FinishAfter(p, l, op) ==
    /\ pc' = [pc EXCEPT ![p] = l]
    /\ loc' = [loc EXCEPT ![p] = Return([loc[p] EXCEPT !.ops = Did(p, op)])]

Touches(tbl, e) == RowsByEmail(users, e) # RowsByEmail(tbl, e)

\* process q replaces the table by tbl; the requests in flight for an email
\* whose row changes are no longer undisturbed
Disturb(q, tbl) ==
    undisturbed' = [p \in Procs |->
                      IF p # q /\ ~Idle(p) /\ Touches(tbl, loc[p].email)
                      THEN FALSE ELSE undisturbed[p]]

Write(q, tbl) ==
    /\ users' = tbl
    /\ Disturb(q, tbl)
    /\ lastLogout' = IF Touches(tbl, lastLogout.email) THEN NoToken
                                                       ELSE lastLogout

(* ---------------------------- GET /auth/google -------------------------- *)
\* getGoogleAuthURL: rootUrl ? URLSearchParams(options)
getGoogleAuthURL ==
    "https://accounts.google.com/o/oauth2/v2/auth?access_type=offline"
    \o "&response_type=code&prompt=consent&scope=openid+email+profile"

\* googleLogin: res.redirect(getGoogleAuthURL()); no await: one step
Login(p) ==
    /\ Accept(p, [NoReq EXCEPT !.kind = "login"], "done")
    /\ loc' = [loc EXCEPT ![p] = NoLoc]
    /\ resp' = [resp EXCEPT ![p] =
                   [NoResp EXCEPT !.status = 302, !.service = 302,
                                  !.location = getGoogleAuthURL]]
    /\ UNCHANGED <<users, now, usedCodes, granted, revoked, issued,
                   lastLogout>>

(* ---------------- GET /auth/google/callback ----------------------------- *)
\* mutant: the refresh token is written whether the provider sent one or not
PersistsRefreshToken_always(rt) == TRUE

\* if (refresh_token) { await updateRefreshToken(...) }
PersistsRefreshToken(rt) == rt # NoRT

\* mutant: the catch block rethrows the error it caught
LoginError_rethrow(origin) == origin

\* catch (err) { console.error(..., err.message); throw new Error(...) }
LoginError(origin) == "LoginFailed"

\* the provider numbers its codes: a client holds code c only after the
\* codes below c were handed out
HandedOut(c) ==
    \/ c \in usedCodes
    \/ \E q \in Procs : req[q].kind = "callback" /\ req[q].code = c
CodeInputs == {c \in Codes : \A d \in Codes : d < c => HandedOut(d)}

\* googleCallback: const code = req.query.code; handleGoogleCallback(code)
CallbackStart(p, code) ==
    /\ Accept(p, [NoReq EXCEPT !.kind = "callback", !.code = code],
              "cb_exchange")
    /\ loc' = [loc EXCEPT ![p] = NoLoc]
    /\ resp' = [resp EXCEPT ![p] = NoResp]
    /\ UNCHANGED <<users, now, usedCodes, granted, revoked, issued,
                   lastLogout>>

\* the catch block of handleGoogleCallback; the rejected promise reaches
\* googleCallback, which has no try/catch, and no error middleware is
\* registered in app.js: no response is written
CbFail(p, origin) ==
    /\ Finish(p, "rejected")
    /\ resp' = [resp EXCEPT ![p] =
                   [NoResp EXCEPT !.service = Threw, !.origin = origin,
                                  !.logged = origin,
                                  !.error = LoginError(origin)]]
    /\ UNCHANGED <<users, now, usedCodes, granted, revoked, issued, nreq, req,
                   undisturbed, lastLogout>>

\* mutant: the provider exchanges a code as often as it is presented
CbExchange_reuse(p) ==
    /\ pc[p] = "cb_exchange"
    /\ req[p].code \in Codes
    /\ \E e \in Emails : \E rt \in {NoRT, RT(e)} :
          /\ rt \notin revoked
          /\ loc' = [loc EXCEPT ![p].access = e, ![p].rt = rt,
                                ![p].ops = Did(p, "exchange")]
          /\ granted' = granted \cup ({rt} \ {NoRT})
    /\ usedCodes' = usedCodes \cup {req[p].code}
    /\ Goto(p, "cb_userinfo")
    /\ UNCHANGED <<users, now, revoked, issued, nreq, req, resp, undisturbed,
                   lastLogout>>

\* 1. axios.post(token endpoint, grant_type authorization_code)
CbExchange(p) ==
    /\ pc[p] = "cb_exchange"
    /\ req[p].code \in Codes \ usedCodes
    /\ \E e \in Emails : \E rt \in {NoRT, RT(e)} :
          /\ rt \notin revoked
          /\ loc' = [loc EXCEPT ![p].access = e, ![p].rt = rt,
                                ![p].ops = Did(p, "exchange")]
          /\ granted' = granted \cup ({rt} \ {NoRT})
    /\ usedCodes' = usedCodes \cup {req[p].code}
    /\ Goto(p, "cb_userinfo")
    /\ UNCHANGED <<users, now, revoked, issued, nreq, req, resp, undisturbed,
                   lastLogout>>

\* the provider rejects the code (unknown or already exchanged), or the
\* call fails on the network
CbExchangeFail(p) ==
    /\ pc[p] = "cb_exchange"
    /\ CbFail(p, "exchange")

\* mutant: the lookup is left out, the status is written right after the
\* userinfo fetch
CbUserinfo_nolookup(p) ==
    /\ pc[p] = "cb_userinfo"
    /\ loc' = [loc EXCEPT ![p].email = loc[p].access,
                          ![p].ops = Did(p, "userinfo")]
    /\ Goto(p, "cb_status")
    /\ UNCHANGED <<users, now, usedCodes, granted, revoked, issued, nreq, req,
                   resp, undisturbed, lastLogout>>

\* 2. axios.get(userinfo, Bearer access_token)
CbUserinfo(p) ==
    /\ pc[p] = "cb_userinfo"
    /\ loc' = [loc EXCEPT ![p].email = loc[p].access,
                          ![p].ops = Did(p, "userinfo")]
    /\ Goto(p, "cb_find")
    /\ UNCHANGED <<users, now, usedCodes, granted, revoked, issued, nreq, req,
                   resp, undisturbed, lastLogout>>

CbUserinfoFail(p) ==
    /\ pc[p] = "cb_userinfo"
    /\ CbFail(p, "userinfo")

\* 3. let user = await findUserByEmail(email); if (!user) ...
CbFind(p) ==
    /\ pc[p] = "cb_find"
    /\ IF HasEmail(users, loc[p].email)
         THEN /\ loc' = [loc EXCEPT ![p].user = RowOf(users, loc[p].email).id,
                                    ![p].userEmail = loc[p].email,
                                    ![p].ops = Did(p, "find")]
              /\ Goto(p, "cb_status")
         ELSE /\ loc' = [loc EXCEPT ![p].ops = Did(p, "find")]
              /\ Goto(p, "cb_create")
    /\ UNCHANGED <<users, now, usedCodes, granted, revoked, issued, nreq, req,
                   resp, undisturbed, lastLogout>>

\* mutant: the INSERT returns a row that the table does not keep
CbCreate_unsaved(p) ==
    /\ pc[p] = "cb_create"
    /\ ~UniqueViolation(users, loc[p].email)
    /\ LET row == createUser(users, loc[p].email, now)
       IN loc' = [loc EXCEPT ![p].user = row.id, ![p].userEmail = row.email,
                             ![p].ops = Did(p, "insert")]
    /\ Goto(p, "cb_status")
    /\ UNCHANGED <<users, now, usedCodes, granted, revoked, issued, nreq, req,
                   resp, undisturbed, lastLogout>>

\* user = await createUser({ email, name, login_provider: 'google' })
CbCreate(p) ==
    /\ pc[p] = "cb_create"
    /\ ~UniqueViolation(users, loc[p].email)
    /\ LET row == createUser(users, loc[p].email, now)
       IN /\ Write(p, users \cup {row})
          /\ loc' = [loc EXCEPT ![p].user = row.id, ![p].userEmail = row.email,
                                ![p].ops = Did(p, "insert")]
    /\ Goto(p, "cb_status")
    /\ UNCHANGED <<now, usedCodes, granted, revoked, issued, nreq, req, resp>>

\* the INSERT violates the unique email: db.query rethrows
CbCreateDuplicate(p) ==
    /\ pc[p] = "cb_create"
    /\ UniqueViolation(users, loc[p].email)
    /\ CbFail(p, "duplicate")

\* mutant: the status write is left out
CbStatus_skip(p) ==
    /\ pc[p] = "cb_status"
    /\ Goto(p, IF PersistsRefreshToken(loc[p].rt) THEN "cb_refresh"
                                                  ELSE "cb_issue")
    /\ UNCHANGED <<users, now, usedCodes, granted, revoked, issued, nreq, req,
                   loc, resp, undisturbed, lastLogout>>

\* await updateUserStatus(email, 'ONLINE')
CbStatus(p) ==
    /\ pc[p] = "cb_status"
    /\ Write(p, updateUserStatus(users, loc[p].email, "ONLINE"))
    /\ Goto(p, IF PersistsRefreshToken(loc[p].rt) THEN "cb_refresh"
                                                  ELSE "cb_issue")
    /\ loc' = [loc EXCEPT ![p].ops = Did(p, "status")]
    /\ UNCHANGED <<now, usedCodes, granted, revoked, issued, nreq, req, resp>>

\* await updateRefreshToken(user.id, refresh_token)
CbRefresh(p) ==
    /\ pc[p] = "cb_refresh"
    /\ Write(p, updateRefreshToken(users, loc[p].user, loc[p].rt))
    /\ Goto(p, "cb_issue")
    /\ loc' = [loc EXCEPT ![p].ops = Did(p, "token")]
    /\ UNCHANGED <<now, usedCodes, granted, revoked, issued, nreq, req, resp>>

\* a repository call of the callback throws (db.query rethrows)
CbStoreFail(p) ==
    /\ pc[p] \in {"cb_find", "cb_create", "cb_status", "cb_refresh"}
    /\ CbFail(p, "store")

\* 4. createJwtAccessToken(user); return {refreshToken, response};
\* googleCallback: res.cookie('refreshToken', result.refreshToken).json(...)
CbIssue(p) ==
    /\ pc[p] = "cb_issue"
    /\ LET tok == createJwtAccessToken(
                      [id |-> loc[p].user, email |-> loc[p].userEmail], now)
       IN /\ resp' = [resp EXCEPT ![p] =
                         [NoResp EXCEPT !.status = 200, !.service = 200,
                                        !.accessToken = tok,
                                        !.expiresIn = ExpiresIn,
                                        !.cookie = loc[p].rt]]
          /\ issued' = issued \cup {tok}
    /\ Finish(p, "done")
    /\ UNCHANGED <<users, now, usedCodes, granted, revoked, nreq, req,
                   undisturbed, lastLogout>>

Callback(p) ==
    \/ \E c \in CodeInputs : CallbackStart(p, c)
    \/ CbExchange(p)
    \/ CbExchangeFail(p)
    \/ CbUserinfo(p)
    \/ CbUserinfoFail(p)
    \/ CbFind(p)
    \/ CbCreate(p)
    \/ CbCreateDuplicate(p)
    \/ CbStatus(p)
    \/ CbRefresh(p)
    \/ CbStoreFail(p)
    \/ CbIssue(p)

(* ---------------------------- POST /auth/token -------------------------- *)
\* res.status(result.status).json(result.body)
Reply(p, status, origin) ==
    resp' = [resp EXCEPT ![p] =
               [NoResp EXCEPT !.status = status, !.service = status,
                              !.origin = origin]]

\* catch (err) { return { status: 500, ... } }
RefreshCatchStatus == 500

\* what else a client can send along with the refreshToken cookie: no
\* Authorization header, or a session token it holds
RefreshBearers == {NoToken} \cup issued

\* mutant: the guard on the absent refresh token is left out
RefreshStart_unguarded(p, r, bearer) ==
    /\ Accept(p, [NoReq EXCEPT !.kind = "refresh", !.cookieRT = r,
                               !.bearer = bearer], "rf_exchange")
    /\ loc' = [loc EXCEPT ![p] = NoLoc]
    /\ resp' = [resp EXCEPT ![p] = NoResp]
    /\ UNCHANGED <<users, now, usedCodes, granted, revoked, issued,
                   lastLogout>>

\* refreshGoogleAccessToken: getNewAccessTokenFromGoogle(req.cookies.refreshToken)
\* if (!refreshToken) return { status: 401, ... }
RefreshStart(p, r, bearer) ==
    /\ Accept(p, [NoReq EXCEPT !.kind = "refresh", !.cookieRT = r,
                               !.bearer = bearer],
              IF r = NoRT THEN "done" ELSE "rf_exchange")
    /\ loc' = [loc EXCEPT ![p] = NoLoc]
    /\ IF r = NoRT THEN Reply(p, 401, "missing")
                   ELSE resp' = [resp EXCEPT ![p] = NoResp]
    /\ UNCHANGED <<users, now, usedCodes, granted, revoked, issued,
                   lastLogout>>

\* mutant: a failed refresh marks the holder of the refresh token OFFLINE
RfFail_offline(p, origin) ==
    /\ Finish(p, "done")
    /\ Reply(p, 500, origin)
    /\ users' = {IF u.refresh_token = req[p].cookieRT
                   THEN [u EXCEPT !.status = "OFFLINE"] ELSE u : u \in users}
    /\ UNCHANGED <<now, usedCodes, granted, revoked, issued, nreq, req,
                   undisturbed, lastLogout>>

RfFail(p, origin) ==
    /\ Finish(p, "done")
    /\ Reply(p, RefreshCatchStatus, origin)
    /\ UNCHANGED <<users, now, usedCodes, granted, revoked, issued, nreq, req,
                   undisturbed, lastLogout>>

\* the provider accepts a refresh token it has granted and not revoked
ProviderAccepts(r) == r \in granted \ revoked

\* axios.post(token endpoint, grant_type refresh_token)
RfExchange(p) ==
    /\ pc[p] = "rf_exchange"
    /\ ProviderAccepts(req[p].cookieRT)
    /\ loc' = [loc EXCEPT ![p].access = RTOwner(req[p].cookieRT),
                          ![p].ops = Did(p, "exchange")]
    /\ Goto(p, "rf_userinfo")
    /\ UNCHANGED <<users, now, usedCodes, granted, revoked, issued, nreq, req,
                   resp, undisturbed, lastLogout>>

\* the provider rejects the refresh token, or the call fails on the network
RfExchangeFail(p) ==
    /\ pc[p] = "rf_exchange"
    /\ RfFail(p, IF ProviderAccepts(req[p].cookieRT) THEN "network"
                                                     ELSE "rejected")

\* mutant: the identity is taken from the session token the client sent
\* along, when there is one
RfUserinfo_bearer(p) ==
    /\ pc[p] = "rf_userinfo"
    /\ loc' = [loc EXCEPT ![p].email = IF req[p].bearer = NoToken
                                         THEN loc[p].access
                                         ELSE req[p].bearer.email,
                          ![p].ops = Did(p, "userinfo")]
    /\ Goto(p, "rf_find")
    /\ UNCHANGED <<users, now, usedCodes, granted, revoked, issued, nreq, req,
                   resp, undisturbed, lastLogout>>

\* (2) axios.get(userinfo, Bearer googleAccessToken)
RfUserinfo(p) ==
    /\ pc[p] = "rf_userinfo"
    /\ loc' = [loc EXCEPT ![p].email = loc[p].access,
                          ![p].ops = Did(p, "userinfo")]
    /\ Goto(p, "rf_find")
    /\ UNCHANGED <<users, now, usedCodes, granted, revoked, issued, nreq, req,
                   resp, undisturbed, lastLogout>>

RfUserinfoFail(p) ==
    /\ pc[p] = "rf_userinfo"
    /\ RfFail(p, "userinfo")

\* mutant: a refresh for an email without a row signs the user up
RfFind_create(p) ==
    /\ pc[p] = "rf_find"
    /\ LET row == IF HasEmail(users, loc[p].email)
                    THEN RowOf(users, loc[p].email)
                    ELSE createUser(users, loc[p].email, now)
           tok == createJwtAccessToken(row, now)
       IN /\ users' = users \cup {row}
          /\ resp' = [resp EXCEPT ![p] =
                         [NoResp EXCEPT !.status = 200, !.service = 200,
                                        !.accessToken = tok,
                                        !.expiresIn = ExpiresIn]]
          /\ issued' = issued \cup {tok}
    /\ FinishAfter(p, "done", "find")
    /\ UNCHANGED <<now, usedCodes, granted, revoked, nreq, req, undisturbed,
                   lastLogout>>

\* const user = await findUserByEmail(email); if (!user) return 404;
\* (3) jwt.sign({ id, email }, JWT_SECRET, { expiresIn: '1h' }); return 200
RfFind(p) ==
    /\ pc[p] = "rf_find"
    /\ IF HasEmail(users, loc[p].email)
         THEN LET tok == createJwtAccessToken(RowOf(users, loc[p].email), now)
              IN /\ resp' = [resp EXCEPT ![p] =
                                [NoResp EXCEPT !.status = 200,
                                               !.service = 200,
                                               !.accessToken = tok,
                                               !.expiresIn = ExpiresIn]]
                 /\ issued' = issued \cup {tok}
         ELSE /\ Reply(p, 404, "nouser")
              /\ issued' = issued
    /\ FinishAfter(p, "done", "find")
    /\ UNCHANGED <<users, now, usedCodes, granted, revoked, nreq, req,
                   undisturbed, lastLogout>>

RfStoreFail(p) ==
    /\ pc[p] = "rf_find"
    /\ RfFail(p, "store")

Refresh(p) ==
    \/ \E r \in RTokens \cup {NoRT} : \E b \in RefreshBearers :
          RefreshStart(p, r, b)
    \/ RfExchange(p)
    \/ RfExchangeFail(p)
    \/ RfUserinfo(p)
    \/ RfUserinfoFail(p)
    \/ RfFind(p)
    \/ RfStoreFail(p)

(* ---------------------------- POST /auth/logout ------------------------- *)
\* the session tokens a client can put into a request
TokenInputs == {NoToken, Garbage} \cup Forged \cup issued

\* a client sends its token as bearer token, as userEmail cookie, or as both
LogoutInputs ==
    {bc \in TokenInputs \X TokenInputs :
        bc[1] = NoToken \/ bc[2] = NoToken}

\* logout: const result = await handleLogout(req.cookies.userEmail)
LogoutToken(r) == r.cookieUserEmail

\* the token argument of handleLogout / fetchUserInfoFromGoogle
Arg(r) == IF r.kind = "logout" THEN LogoutToken(r) ELSE r.bearer

\* status and refresh token of the row of e in tbl
Before(tbl, e) ==
    IF HasEmail(tbl, e)
      THEN [status |-> RowOf(tbl, e).status,
            refresh_token |-> RowOf(tbl, e).refresh_token]
      ELSE NoBefore

\* handleLogout: if (!token) return 401;
\* try { decoded = jwt.verify(token, JWT_SECRET) ... } catch { return 401 }
LogoutStart(p, bearer, cookie) ==
    LET r == [NoReq EXCEPT !.kind = "logout", !.bearer = bearer,
                           !.cookieUserEmail = cookie]
        token == LogoutToken(r)
        ok == token # NoToken /\ jwtVerify(token, now)
    IN /\ Accept(p, r, IF ok THEN "lo_find" ELSE "done")
       /\ loc' = [loc EXCEPT ![p] =
                     [NoLoc EXCEPT !.at = now,
                                   !.email = IF ok THEN jwtDecode(token).email
                                                   ELSE "",
                                   !.before = IF ok THEN Before(users, token.email)
                                                    ELSE NoBefore]]
       /\ IF ok THEN resp' = [resp EXCEPT ![p] = NoResp]
                ELSE Reply(p, 401, "token")
       /\ UNCHANGED <<users, now, usedCodes, granted, revoked, issued,
                      lastLogout>>

\* catch (err) { return { status: 401, ... } } also catches what the
\* repository throws
LoStoreFail(p) ==
    /\ pc[p] \in {"lo_find", "lo_status", "lo_clear"}
    /\ Finish(p, "done")
    /\ Reply(p, 401, "store")
    /\ UNCHANGED <<users, now, usedCodes, granted, revoked, issued, nreq, req,
                   undisturbed, lastLogout>>

\* const user = await findUserByEmail(email); if (!user) return 404
LoFind(p) ==
    /\ pc[p] = "lo_find"
    /\ IF HasEmail(users, loc[p].email)
         THEN /\ loc' = [loc EXCEPT ![p].user = RowOf(users, loc[p].email).id,
                                    ![p].ops = Did(p, "find")]
              /\ Goto(p, "lo_status")
              /\ resp' = resp
         ELSE /\ Reply(p, 404, "nouser")
              /\ FinishAfter(p, "done", "find")
    /\ UNCHANGED <<users, now, usedCodes, granted, revoked, issued, nreq, req,
                   undisturbed, lastLogout>>

\* await updateUserStatus(email, 'OFFLINE')
LoStatus(p) ==
    /\ pc[p] = "lo_status"
    /\ Write(p, updateUserStatus(users, loc[p].email, "OFFLINE"))
    /\ Goto(p, "lo_clear")
    /\ loc' = [loc EXCEPT ![p].ops = Did(p, "status")]
    /\ UNCHANGED <<now, usedCodes, granted, revoked, issued, nreq, req, resp>>

\* await clearRefreshToken(user.id); return { status: 200, ... }
LoClear(p) ==
    /\ pc[p] = "lo_clear"
    /\ users' = clearRefreshToken(users, loc[p].user)
    /\ Disturb(p, users')
    /\ lastLogout' = IF undisturbed[p] THEN Arg(req[p]) ELSE NoToken
    /\ Reply(p, 200, "")
    /\ FinishAfter(p, "done", "clear")
    /\ UNCHANGED <<now, usedCodes, granted, revoked, issued, nreq, req>>

Logout(p) ==
    \/ \E bc \in LogoutInputs : LogoutStart(p, bc[1], bc[2])
    \/ LoFind(p)
    \/ LoStatus(p)
    \/ LoClear(p)
    \/ LoStoreFail(p)

(* ------------------------------ GET /auth/me ---------------------------- *)
\* getGoogleProfile: token = authHeader?.split(' ')[1];
\* fetchUserInfoFromGoogle: if (!token) 401; jwt.verify or catch -> 401
ProfileStart(p, bearer) ==
    LET ok == bearer # NoToken /\ jwtVerify(bearer, now)
    IN /\ Accept(p, [NoReq EXCEPT !.kind = "profile", !.bearer = bearer],
                 IF ok THEN "pf_find" ELSE "done")
       /\ loc' = [loc EXCEPT ![p] =
                     [NoLoc EXCEPT !.at = now,
                                   !.fresh = (lastLogout = bearer),
                                   !.email = IF ok THEN jwtDecode(bearer).email
                                                   ELSE ""]]
       /\ IF ok THEN resp' = [resp EXCEPT ![p] = NoResp]
                ELSE Reply(p, 401, "token")
       /\ UNCHANGED <<users, now, usedCodes, granted, revoked, issued,
                      lastLogout>>

\* mutant: the body is the row as the repository returns it (SELECT *)
Projection_row(user) == user

\* the body of the 200 answer of fetchUserInfoFromGoogle
Projection(user) ==
    [email |-> user.email, name |-> user.name,
     login_provider |-> user.login_provider, created_at |-> user.created_at]

\* what fetchUserInfoFromGoogle(token) returns on table tbl when the token is
\* verified at clock t and the lookup does not throw
fetchUserInfoFromGoogle(tbl, token, t) ==
    IF token = NoToken \/ ~jwtVerify(token, t)
      THEN [status |-> 401, body |-> NoBody]
      ELSE IF ~HasEmail(tbl, token.email)
             THEN [status |-> 404, body |-> NoBody]
             ELSE [status |-> 200,
                   body |-> Projection(RowOf(tbl, token.email))]

\* mutant: a profile request marks the user ONLINE
PfFind_online(p) ==
    /\ pc[p] = "pf_find"
    /\ IF HasEmail(users, loc[p].email)
         THEN resp' = [resp EXCEPT ![p] =
                         [NoResp EXCEPT
                            !.status = 200, !.service = 200,
                            !.body = Projection(RowOf(users, loc[p].email))]]
         ELSE Reply(p, 404, "nouser")
    /\ users' = updateUserStatus(users, loc[p].email, "ONLINE")
    /\ FinishAfter(p, "done", "find")
    /\ UNCHANGED <<now, usedCodes, granted, revoked, issued, nreq, req,
                   undisturbed, lastLogout>>

\* const user = await findUserByEmail(decoded.email); 404 or 200
PfFind(p) ==
    /\ pc[p] = "pf_find"
    /\ IF HasEmail(users, loc[p].email)
         THEN resp' = [resp EXCEPT ![p] =
                         [NoResp EXCEPT
                            !.status = 200, !.service = 200,
                            !.body = Projection(RowOf(users, loc[p].email))]]
         ELSE Reply(p, 404, "nouser")
    /\ FinishAfter(p, "done", "find")
    /\ UNCHANGED <<users, now, usedCodes, granted, revoked, issued, nreq, req,
                   undisturbed, lastLogout>>

PfStoreFail(p) ==
    /\ pc[p] = "pf_find"
    /\ Finish(p, "done")
    /\ Reply(p, 401, "store")
    /\ UNCHANGED <<users, now, usedCodes, granted, revoked, issued, nreq, req,
                   undisturbed, lastLogout>>

Profile(p) ==
    \/ \E b \in TokenInputs : ProfileStart(p, b)
    \/ PfFind(p)
    \/ PfStoreFail(p)

(* ------------------------------ environment ----------------------------- *)
\* a request is in flight or can still be accepted
Serving == nreq < MaxRequests \/ \E p \in Procs : ~Idle(p)

\* the wall clock advances
Tick ==
    /\ Serving
    /\ now < MaxClock
    /\ now' = now + 1
    /\ UNCHANGED <<users, usedCodes, granted, revoked, issued, nreq, pc, req,
                   loc, resp, undisturbed, lastLogout>>

\* the identity provider revokes a refresh token it has granted; only the
\* exchanges observe a revocation, so it is taken while one is pending
Revoke(r) ==
    /\ \E p \in Procs : pc[p] \in {"cb_exchange", "rf_exchange"}
    /\ r \in granted \ revoked
    /\ revoked' = revoked \cup {r}
    /\ UNCHANGED <<users, now, usedCodes, granted, issued, nreq, pc, req, loc,
                   resp, undisturbed, lastLogout>>

Next ==
    \/ \E p \in Procs : Login(p)
    \/ \E p \in Procs : Callback(p)
    \/ \E p \in Procs : Refresh(p)
    \/ \E p \in Procs : Logout(p)
    \/ \E p \in Procs : Profile(p)
    \/ Tick
    \/ \E r \in RTokens : Revoke(r)

Spec == Init /\ [][Next]_vars

TypeOK ==
    /\ now \in 0..MaxClock
    /\ nreq \in 0..MaxRequests
    /\ usedCodes \subseteq Codes
    /\ revoked \subseteq granted
    /\ granted \subseteq RTokens

(* ------------------------------- claims --------------------------------- *)
Finished(p) == pc[p] \in {"done", "rejected"}

\* process p accepts a request in this step
Starts(p) == Acceptor(p) /\ nreq' = nreq + 1

\* process p, serving a request already, takes a step
Continues(p) == ~Idle(p) /\ pc'[p] # pc[p]

RowIs(tbl, e, status, rt) ==
    /\ Cardinality(RowsByEmail(tbl, e)) = 1
    /\ RowOf(tbl, e).status = status
    /\ RowOf(tbl, e).refresh_token = rt

\* the callback request of p met no failure of the provider or the database
NoOutage(p) == resp[p].origin \notin {"exchange", "userinfo", "store"}

\* C1: two callback requests that overlap, for the same email, both end with
\* a 200 answer carrying a session token, and the table has exactly one row
\* of that email (no provider or database outage assumed).
C1_ConcurrentFirstLogin ==
    \A p \in Procs : \A q \in Procs \ {p} :
        ( /\ req[p].kind = "callback" /\ req[q].kind = "callback"
          /\ Finished(p) /\ Finished(q)
          /\ loc[p].email # "" /\ loc[p].email = loc[q].email
          /\ NoOutage(p) /\ NoOutage(q) )
        => /\ resp[p].status = 200 /\ resp[q].status = 200
           /\ resp[p].accessToken \in issued
           /\ resp[q].accessToken \in issued
           /\ Cardinality(RowsByEmail(users, loc[p].email)) = 1

\* C2: a logout request whose bearer token is a valid unexpired session token
\* of an existing user is answered 200, and the token handleLogout verifies
\* is that bearer token (no database outage assumed).
C2_LogoutByBearer ==
    \A p \in Procs :
        ( /\ req[p].kind = "logout" /\ Finished(p)
          /\ jwtVerify(req[p].bearer, loc[p].at)
          /\ HasEmail(users, req[p].bearer.email)
          /\ resp[p].origin # "store" )
        => /\ resp[p].status = 200
           /\ Arg(req[p]) = req[p].bearer

\* C3: while no write has touched the row since a logout with token t
\* returned 200, the row is OFFLINE, and a getProfile request made with the
\* same, still unexpired t in that window is answered 200 with the user's
\* projection (no database outage assumed).
C3_ProfileAfterLogout ==
    /\ lastLogout # NoToken =>
          /\ HasEmail(users, lastLogout.email)
          /\ RowOf(users, lastLogout.email).status = "OFFLINE"
    /\ \A p \in Procs :
          ( /\ req[p].kind = "profile" /\ pc[p] = "done"
            /\ loc[p].fresh
            /\ req[p].bearer.kind = "jwt" /\ loc[p].at < req[p].bearer.exp
            /\ resp[p].origin # "store" )
          => /\ resp[p].status = 200
             /\ resp[p].body.email = req[p].bearer.email

C3_Witness ==
    \E p \in Procs :
        /\ req[p].kind = "profile" /\ pc[p] = "done" /\ loc[p].fresh
        /\ resp[p].status = 200
        /\ lastLogout = req[p].bearer
        /\ RowOf(users, req[p].bearer.email).status = "OFFLINE"

\* C4: a refresh request whose refresh token the provider has revoked never
\* changes the users table, and its token exchange ends the request with
\* status 500 and no session token.
C4_RevokedRefresh ==
    [][\A p \in Procs :
          ( /\ Starts(p) \/ Continues(p)
            /\ req'[p].kind = "refresh"
            /\ req'[p].cookieRT \in revoked )
          => /\ users' = users
             /\ pc[p] = "rf_exchange" =>
                   /\ pc'[p] = "done"
                   /\ resp'[p].status = 500
                   /\ resp'[p].accessToken = NoToken
                   /\ issued' = issued]_vars

C4_Witness ==
    \E p \in Procs :
        /\ req[p].kind = "refresh" /\ pc[p] = "done"
        /\ req[p].cookieRT \in revoked
        /\ resp[p].origin = "rejected" /\ resp[p].status = 500
        /\ \E u \in users : u.refresh_token = req[p].cookieRT

\* C5: no step of a callback whose token response carried no refresh token
\* changes the refresh token stored in any existing row.
C5_NoRefreshTokenKept ==
    [][\A p \in Procs :
          ( /\ Continues(p)
            /\ req[p].kind = "callback"
            /\ pc[p] # "cb_exchange"
            /\ loc[p].rt = NoRT )
          => \A u \in users : \E v \in users' :
                /\ v.id = u.id
                /\ v.refresh_token = u.refresh_token]_vars

C5_Witness ==
    \E p \in Procs :
        /\ req[p].kind = "callback" /\ pc[p] = "done"
        /\ resp[p].status = 200 /\ resp[p].cookie = NoRT
        /\ HasEmail(users, loc[p].email)
        /\ RowOf(users, loc[p].email).refresh_token = RT(loc[p].email)

\* C6: when handleLogout returns 200 for a token with email e and no other
\* request wrote the row of e meanwhile, that row is OFFLINE with a NULL
\* refresh token in the state the call returns in.
C6_LogoutClearsRow ==
    [][\A p \in Procs :
          ( /\ Continues(p)
            /\ req[p].kind = "logout"
            /\ resp'[p].status = 200
            /\ undisturbed[p] )
          => RowIs(users', Arg(req[p]).email, "OFFLINE", NoRT)]_vars

C6_Witness ==
    \E p \in Procs :
        /\ req[p].kind = "logout" /\ pc[p] = "done"
        /\ resp[p].status = 200 /\ undisturbed[p]
        /\ lastLogout = Arg(req[p])
        /\ RT(Arg(req[p]).email) \in granted
        /\ RowIs(users, Arg(req[p]).email, "OFFLINE", NoRT)

\* absent, malformed, signed with another secret, or expired at time t
BadToken(tok, t) ==
    \/ tok.kind = "absent"
    \/ tok.kind = "malformed"
    \/ tok.key # JWT_SECRET
    \/ tok.exp <= t

\* C7: a logout whose token is absent, malformed, wrongly signed or expired
\* is answered 401 at once and leaves the users table as it was.
C7_BadTokenLogout ==
    [][\A p \in Procs :
          ( /\ Starts(p)
            /\ req'[p].kind = "logout"
            /\ BadToken(Arg(req'[p]), now) )
          => /\ pc'[p] = "done"
             /\ resp'[p].status = 401
             /\ users' = users]_vars

C7_Witness ==
    \E p \in Procs :
        /\ req[p].kind = "logout" /\ pc[p] = "done"
        /\ Arg(req[p]) \in issued /\ Arg(req[p]).exp <= loc[p].at
        /\ HasEmail(users, Arg(req[p]).email)
        /\ resp[p].status = 401 /\ resp[p].origin = "token"

\* C8: a callback request whose handler has ended has been answered: 200
\* when the service returned, 500 when it threw.
C8_CallbackAnswered ==
    \A p \in Procs :
        (req[p].kind = "callback" /\ Finished(p))
        => /\ resp[p].status \in {200, 500}
           /\ resp[p].status = 200 <=> resp[p].service = 200

\* the position that follows l when the step at l succeeds
CbNext(l, found, rt) ==
    CASE l = "cb_exchange" -> {"cb_userinfo"}
      [] l = "cb_userinfo" -> {"cb_find"}
      [] l = "cb_find"     -> IF found THEN {"cb_status"} ELSE {"cb_create"}
      [] l = "cb_create"   -> {"cb_status"}
      [] l = "cb_status"   -> IF rt # NoRT THEN {"cb_refresh"} ELSE {"cb_issue"}
      [] l = "cb_refresh"  -> {"cb_issue"}
      [] l = "cb_issue"    -> {"done"}
      [] OTHER             -> {}

\* C9: a callback moves from a step only to the step that follows it, or
\* fails; a failing step writes nothing, issues no token and ends the
\* request; the exchange and the userinfo fetch never write the users table;
\* a token is issued only by the last step.
C9_CallbackOrder ==
    [][\A p \in Procs :
          (Continues(p) /\ req[p].kind = "callback")
          => /\ \/ pc'[p] \in CbNext(pc[p], HasEmail(users, loc[p].email),
                                     loc[p].rt)
                \/ pc'[p] = "rejected"
             /\ pc'[p] = "rejected" =>
                   /\ users' = users /\ issued' = issued
                   /\ resp'[p].status # 200
                   /\ resp'[p].accessToken = NoToken
             /\ pc[p] \in {"cb_exchange", "cb_userinfo"} => users' = users
             /\ pc[p] # "cb_issue" =>
                   issued' = issued /\ resp'[p].accessToken = NoToken]_vars

C9_Witness ==
    /\ \E p \in Procs :
          /\ req[p].kind = "callback" /\ pc[p] = "rejected"
          /\ resp[p].origin = "userinfo"
    /\ \E q \in Procs :
          /\ req[q].kind = "callback" /\ pc[q] = "done"
          /\ resp[q].status = 200 /\ resp[q].cookie # NoRT
    /\ users # {}

\* C10 as claimed: two failed callbacks whose failures originate at different
\* steps deliver different errors to their callers.
C10_OriginPreserved ==
    \A p \in Procs : \A q \in Procs :
        ( /\ req[p].kind = "callback" /\ pc[p] = "rejected"
          /\ req[q].kind = "callback" /\ pc[q] = "rejected"
          /\ resp[p].origin # resp[q].origin )
        => resp[p].error # resp[q].error

\* C10 as amended: a failed callback delivers the one generic login error to
\* its caller, whatever step failed; the originating error is only logged.
C10_GenericLoginError ==
    \A p \in Procs :
        (req[p].kind = "callback" /\ pc[p] = "rejected")
        => /\ resp[p].service = Threw
           /\ resp[p].error = "LoginFailed"
           /\ resp[p].logged = resp[p].origin
           /\ resp[p].accessToken = NoToken

C10_Witness ==
    \E p \in Procs : \E q \in Procs :
        /\ req[p].kind = "callback" /\ pc[p] = "rejected"
        /\ req[q].kind = "callback" /\ pc[q] = "rejected"
        /\ resp[p].origin = "exchange" /\ resp[q].origin = "store"
        /\ resp[p].error = resp[q].error

\* how many times the call op was completed
Count(ops, op) == Cardinality({i \in DOMAIN ops : ops[i] = op})

\* C11: when handleGoogleCallback returns successfully, the provider having
\* returned refresh token r and userinfo email e, and no other request wrote
\* the row of e meanwhile, there is exactly one row of e, it is ONLINE and
\* stores r, and the returned session token verifies and carries the id and
\* the email of that row; the body says expiresIn 3600 and the token expires
\* one lifetime after the return.
C11_CallbackPostcondition ==
    [][\A p \in Procs :
          ( /\ Continues(p)
            /\ req[p].kind = "callback"
            /\ resp'[p].status = 200
            /\ loc[p].rt # NoRT
            /\ undisturbed[p] )
          => /\ RowIs(users', loc[p].email, "ONLINE", loc[p].rt)
             /\ jwtVerify(resp'[p].accessToken, now)
             /\ resp'[p].accessToken.id = RowOf(users', loc[p].email).id
             /\ resp'[p].accessToken.email = loc[p].email
             /\ resp'[p].accessToken.exp = now + TokenLifetime
             /\ resp'[p].expiresIn = ExpiresIn]_vars

\* a first login has created the row and returned
C11_Witness ==
    \E p \in Procs :
        /\ req[p].kind = "callback" /\ pc[p] = "done"
        /\ resp[p].status = 200 /\ undisturbed[p]
        /\ Count(loc[p].ops, "insert") = 1
        /\ resp[p].cookie = RT(loc[p].email)
        /\ RowIs(users, loc[p].email, "ONLINE", resp[p].cookie)
        /\ resp[p].accessToken.id = RowOf(users, loc[p].email).id
        /\ resp[p].expiresIn = ExpiresIn

\* C12: the session token a refresh request issues carries the email the
\* provider reports for the supplied refresh token and the id of the row of
\* that email, whatever session token the client sends along with the
\* request.
C12_RefreshIdentity ==
    [][\A p \in Procs :
          ( /\ Continues(p)
            /\ req[p].kind = "refresh"
            /\ resp'[p].status = 200 )
          => LET tok == resp'[p].accessToken
                 e == RTOwner(req[p].cookieRT)
             IN /\ tok \in issued'
                /\ jwtVerify(tok, now)
                /\ tok.email = e
                /\ HasEmail(users, e)
                /\ tok.id = RowOf(users, e).id]_vars

\* a refresh sent with the session token of another user
C12_Witness ==
    \E p \in Procs :
        /\ req[p].kind = "refresh" /\ pc[p] = "done"
        /\ resp[p].status = 200
        /\ req[p].bearer \in issued
        /\ req[p].bearer.email # RTOwner(req[p].cookieRT)
        /\ resp[p].accessToken.email = RTOwner(req[p].cookieRT)

\* C13: a refresh whose refresh token the provider accepted and whose
\* userinfo email has no row is answered 404 by the lookup, unless the
\* lookup itself fails: no session token is issued, and no step of such a
\* request changes the users table.
C13_RefreshUnknownUser ==
    [][\A p \in Procs :
          ( /\ Continues(p)
            /\ req[p].kind = "refresh"
            /\ pc[p] \in {"rf_userinfo", "rf_find"}
            /\ ~HasEmail(users, loc[p].access) )
          => /\ users' = users
             /\ issued' = issued
             /\ resp'[p].accessToken = NoToken
             /\ pc[p] = "rf_find" =>
                   /\ pc'[p] = "done"
                   /\ resp'[p].status = 404 \/ resp'[p].origin = "store"]_vars

C13_Witness ==
    \E p \in Procs :
        /\ req[p].kind = "refresh" /\ pc[p] = "done"
        /\ ProviderAccepts(req[p].cookieRT)
        /\ loc[p].ops = <<"exchange", "userinfo", "find">>
        /\ ~HasEmail(users, RTOwner(req[p].cookieRT))
        /\ resp[p].status = 404 /\ resp[p].accessToken = NoToken

\* C14: a refresh request without a refresh token is answered 401 in the
\* step that accepts it: the handler completes no provider call and no
\* repository call, and the users table and the provider's records are as
\* before.
C14_RefreshWithoutToken ==
    [][\A p \in Procs :
          ( /\ Starts(p)
            /\ req'[p].kind = "refresh"
            /\ req'[p].cookieRT = NoRT )
          => /\ pc'[p] = "done"
             /\ resp'[p].status = 401
             /\ resp'[p].accessToken = NoToken
             /\ loc'[p].ops = <<>>
             /\ users' = users
             /\ granted' = granted /\ revoked' = revoked
             /\ issued' = issued]_vars

\* a client that holds a session token but sends no refreshToken cookie
C14_Witness ==
    \E p \in Procs :
        /\ req[p].kind = "refresh" /\ pc[p] = "done"
        /\ req[p].cookieRT = NoRT /\ req[p].bearer \in issued
        /\ HasEmail(users, req[p].bearer.email)
        /\ resp[p].status = 401 /\ resp[p].origin = "missing"
        /\ loc[p].ops = <<>>

\* the tables that differ from tbl in stored refresh tokens only
TokenVariants(tbl) ==
    {{[u EXCEPT !.refresh_token = f[u.id]] : u \in tbl} :
        f \in [{u.id : u \in tbl} -> RTokens \cup {NoRT}]}

UserIds == 1..Cardinality(Emails)

\* C16: for every id and email, the token signed for them at any time
\* verifies with the process secret at every time before its expiry and
\* decodes to exactly that id and email; every token handed out decodes to
\* the id and email of a row; and a handler that has verified its token
\* works on the email the token was signed for.
C16_TokenRoundTrip ==
    /\ \A id \in UserIds : \A e \in Emails : \A t0 \in 0..MaxClock :
          LET tok == createJwtAccessToken([id |-> id, email |-> e], t0)
          IN /\ jwtDecode(tok) = [id |-> id, email |-> e]
             /\ \A t \in t0..(MaxClock + TokenLifetime) :
                   t < t0 + TokenLifetime => jwtVerify(tok, t)
    /\ \A tok \in issued :
          \E u \in users : jwtDecode(tok) = [id |-> u.id, email |-> u.email]
    /\ \A p \in Procs :
          ( /\ req[p].kind \in {"logout", "profile"}
            /\ jwtVerify(Arg(req[p]), loc[p].at) )
          => loc[p].email = Arg(req[p]).email

\* a token issued in this run was presented and verified before its expiry
C16_Witness ==
    \E p \in Procs :
        /\ req[p].kind = "profile" /\ pc[p] = "done"
        /\ req[p].bearer \in issued \ {SeedToken}
        /\ jwtVerify(req[p].bearer, loc[p].at)
        /\ resp[p].status = 200
        /\ resp[p].body.email = req[p].bearer.email

\* C17: a logout or getProfile request made with a session token this
\* system issued, when the clock has reached the token's expiry (its issue
\* time plus the lifetime, see createJwtAccessToken), is answered 401 in the step that accepts it and leaves the
\* users table alone, whatever the rows are.
C17_ExpiredTokenRejected ==
    [][\A p \in Procs :
          ( /\ Starts(p)
            /\ req'[p].kind \in {"logout", "profile"}
            /\ Arg(req'[p]) \in issued
            /\ now >= Arg(req'[p]).exp )
          => /\ pc'[p] = "done"
             /\ resp'[p].status = 401
             /\ resp'[p].body = NoBody
             /\ users' = users]_vars

\* a profile request made exactly one lifetime after the token was issued,
\* the user's row being there
C17_Witness ==
    \E p \in Procs :
        /\ req[p].kind = "profile" /\ pc[p] = "done"
        /\ req[p].bearer \in issued
        /\ loc[p].at = req[p].bearer.exp
        /\ HasEmail(users, req[p].bearer.email)
        /\ resp[p].status = 401 /\ resp[p].origin = "token"

\* the writes among the completed calls, in the order they were made
Writes(ops) == SelectSeq(ops, LAMBDA op : op \in {"insert", "status", "token"})

\* C18 as claimed: every handleGoogleCallback invocation that has ended has
\* made at most one insert, exactly one status write and at most one
\* refresh-token write.
C18_WritesOfEveryCallback ==
    \A p \in Procs :
        (req[p].kind = "callback" /\ Finished(p))
        => /\ Count(loc[p].ops, "insert") <= 1
           /\ Count(loc[p].ops, "status") = 1
           /\ Count(loc[p].ops, "token") <= 1

\* C18 as amended: a handleGoogleCallback invocation makes its writes in the
\* order insert, status, refresh token, each at most once; one that returns
\* successfully has made exactly one status write, and the refresh-token
\* write exactly when the provider sent a refresh token; one that fails has
\* made none of the writes that follow the failing step.
C18_WritesOfCallback ==
    \A p \in Procs :
        req[p].kind = "callback"
        => LET w == Writes(loc[p].ops)
           IN /\ w \in {<<>>, <<"insert">>, <<"status">>,
                         <<"insert", "status">>, <<"status", "token">>,
                         <<"insert", "status", "token">>}
              /\ pc[p] = "done" =>
                    /\ Count(w, "status") = 1
                    /\ Count(w, "token") = 1 <=> resp[p].cookie # NoRT
              /\ (pc[p] = "rejected" /\ resp[p].origin \in {"exchange", "userinfo"})
                    => w = <<>>

\* a first login with a refresh token has made all three writes, and
\* another callback has failed before its status write
C18_Witness ==
    /\ \E p \in Procs :
          /\ req[p].kind = "callback" /\ pc[p] = "done"
          /\ resp[p].status = 200
          /\ Writes(loc[p].ops) = <<"insert", "status", "token">>
    /\ \E q \in Procs :
          /\ req[q].kind = "callback" /\ pc[q] = "rejected"
          /\ Count(loc[q].ops, "status") = 0

\* C19: with a provider that exchanges each authorization code once, the
\* exchange step of a callback whose code was exchanged before ends the
\* request with the login error: no session token is issued, no row
\* changes, and the provider hands out nothing.
C19_CodeReplay ==
    [][\A p \in Procs :
          ( /\ Continues(p)
            /\ req[p].kind = "callback"
            /\ pc[p] = "cb_exchange"
            /\ req[p].code \in usedCodes )
          => /\ pc'[p] = "rejected"
             /\ resp'[p].service = Threw
             /\ resp'[p].error = LoginError("exchange")
             /\ resp'[p].accessToken = NoToken
             /\ resp'[p].cookie = NoRT
             /\ issued' = issued
             /\ users' = users
             /\ granted' = granted]_vars

\* the first callback with the code logged the user in, the second one
\* with the same code was rejected
C19_Witness ==
    \E p \in Procs : \E q \in Procs \ {p} :
        /\ req[p].kind = "callback" /\ pc[p] = "done"
        /\ resp[p].status = 200
        /\ req[q].kind = "callback" /\ pc[q] = "rejected"
        /\ req[q].code = req[p].code
        /\ resp[q].origin = "exchange" /\ resp[q].error = "LoginFailed"
        /\ loc[q].ops = <<>>

\* C20: when a callback for which the provider returned refresh token r and
\* a logout of the same user have both returned successfully, and no other
\* request has been served beside them, the user's row is either ONLINE
\* with refresh token r or OFFLINE without a refresh token.
C20_LoginLogoutRace ==
    \A p \in Procs : \A q \in Procs \ {p} :
        ( /\ req[p].kind = "callback" /\ pc[p] = "done"
          /\ resp[p].status = 200 /\ resp[p].cookie # NoRT
          /\ req[q].kind = "logout" /\ pc[q] = "done"
          /\ resp[q].status = 200
          /\ loc[q].email = loc[p].email
          /\ \A o \in Procs \ {p, q} : req[o].kind = "none" )
        => \/ RowIs(users, loc[p].email, "ONLINE", resp[p].cookie)
           \/ RowIs(users, loc[p].email, "OFFLINE", NoRT)

\* C21: when handleLogout returns a result other than 200 and no other
\* request wrote the row of the token's email during the call, the status
\* and the stored refresh token of that row are what they were when the
\* call began; a call that ends at the token check changes no row.
C21_FailedLogoutKeepsRow ==
    [][\A p \in Procs :
          /\ ( /\ Starts(p)
               /\ req'[p].kind = "logout"
               /\ pc'[p] = "done" )
             => resp'[p].status # 200 /\ users' = users
          /\ ( /\ Continues(p)
               /\ req[p].kind = "logout"
               /\ pc'[p] = "done"
               /\ resp'[p].status # 200
               /\ undisturbed[p] )
             => Before(users', loc[p].email) = loc[p].before]_vars

\* C22: when a callback request is answered successfully and no other
\* request wrote the row of its user meanwhile, the refreshToken cookie of
\* the answer equals the refresh token stored in that row, whether the
\* provider sent a refresh token or not.
C22_CookieIsStoredToken ==
    [][\A p \in Procs :
          ( /\ Continues(p)
            /\ req[p].kind = "callback"
            /\ resp'[p].status = 200
            /\ undisturbed[p] )
          => /\ HasEmail(users', loc[p].email)
             /\ resp'[p].cookie = RowOf(users', loc[p].email).refresh_token]_vars

\* C23: no step of a login, refresh or getProfile request, whatever its
\* outcome, changes the users table, and none of them ever completes a
\* write call.
C23_ReadOnlyOperations ==
    [][\A p \in Procs :
          ( /\ Starts(p) \/ Continues(p)
            /\ req'[p].kind \in {"login", "refresh", "profile"} )
          => /\ users' = users
             /\ Writes(loc'[p].ops) = <<>>]_vars

\* a login was redirected and a refresh failed midway, the table holding a
\* row with a refresh token
C23_Witness ==
    \E p \in Procs : \E q \in Procs :
        /\ req[p].kind = "login" /\ pc[p] = "done"
        /\ resp[p].status = 302 /\ resp[p].location = getGoogleAuthURL
        /\ req[q].kind = "refresh" /\ pc[q] = "done"
        /\ resp[q].status = 500 /\ resp[q].origin = "userinfo"
        /\ \E u \in users : u.refresh_token = req[q].cookieRT

\* every session token handed out names a row by id and email
IssuedHaveRows ==
    \A tok \in issued :
        \E u \in users : u.id = tok.id /\ u.email = tok.email

\* no finished logout or getProfile made with a token this system issued
\* and that verified was answered 404
NoUserNotFound ==
    \A p \in Procs :
        ( /\ req[p].kind \in {"logout", "profile"}
          /\ Finished(p)
          /\ Arg(req[p]) \in issued
          /\ jwtVerify(Arg(req[p]), loc[p].at) )
        => /\ resp[p].status # 404
           /\ resp[p].status = 200 \/ resp[p].origin = "store"

\* C24: no step removes a row or changes the id or the email of one; every
\* session token issued names an existing row; so a logout or getProfile
\* called with an issued token before its expiry is never answered 404: it
\* is answered 200 unless a repository call fails.
C24_IssuedTokensFindTheirUser ==
    [][/\ \A u \in users :
             \E v \in users' : v.id = u.id /\ v.email = u.email
       /\ IssuedHaveRows /\ IssuedHaveRows'
       /\ NoUserNotFound /\ NoUserNotFound']_vars

\* a token issued by a login of this run was used for a logout, after which
\* the row is still there
C24_Witness ==
    \E p \in Procs :
        /\ req[p].kind = "logout" /\ pc[p] = "done"
        /\ Arg(req[p]) \in issued \ {SeedToken}
        /\ resp[p].status = 200
        /\ loc[p].ops = <<"find", "status", "clear">>
        /\ HasEmail(users, Arg(req[p]).email)

====
